---- MODULE Spec2Model ----
(***************************************************************************)
(* Model of myapi.py: the read-filter endpoint read_movies (GET /movies/)  *)
(* with its helper fetch_movies_from_tmdb, the genre table fetched by      *)
(* get_genre_id_mapping and memoised in the module global GENRE_ID_CACHE,  *)
(* and the echo endpoint create_movie (POST /movies/).                     *)
(*                                                                         *)
(* The handlers are coroutines on one event loop: a handler runs without   *)
(* interruption between two awaits of the network.  Each action below is   *)
(* one such uninterrupted stretch.                                         *)
(*                                                                         *)
(* Strings whose content the code inspects or builds (genre names, error   *)
(* details, URLs) are sequences of ASCII code points.  Optional values are *)
(* None (the empty tuple) or Some(x) (a one-element tuple).                *)
(***************************************************************************)
EXTENDS Integers, Sequences, FiniteSets, TLC

VARIABLES
    GENRE_ID_CACHE,   \* the module global: None or Some(dict)
    cacheWrites,      \* history: number of assignments to GENRE_ID_CACHE
    pc,               \* per request slot: where its coroutine stands
    args,             \* per request slot: the genre and year it was called with
    sawNone,          \* per request slot, history: the cache was None on arrival
    log,              \* per request slot: history of its upstream calls
    response,         \* per request slot: how read_movies ended
    echoed            \* the last create_movie call: what was posted, what was returned

vars == <<GENRE_ID_CACHE, cacheWrites, pc, args, sawNone, log, response, echoed>>

----------------------------------------------------------------------------
(* Bounds of the model *)

NumReq == 2        \* request slots served concurrently
MaxResults == 6    \* longest upstream result list
MaxGenres == 2     \* longest upstream genre list

----------------------------------------------------------------------------
(* Values *)

None == <<>>
Some(x) == <<x>>

MinLength == 3
MaxLength == 50
TopN == 5
Page == 1
NotFound == 404
InternalServerError == 500
UnprocessableEntity == 422
OK == 200

\* "k1"
TMDB_API_KEY == <<107, 49>>
\* "/genre/movie/list"
GenreListPath == <<47, 103, 101, 110, 114, 101, 47, 109, 111, 118, 105, 101, 47, 108, 105, 115, 116>>
\* "/discover/movie"
DiscoverPath == <<47, 100, 105, 115, 99, 111, 118, 101, 114, 47, 109, 111, 118, 105, 101>>
\* "?api_key="
ApiKeyParam == <<63, 97, 112, 105, 95, 107, 101, 121, 61>>
\* "Genre '"
GenrePrefix == <<71, 101, 110, 114, 101, 32, 39>>
\* "' not found."
NotFoundSuffix == <<39, 32, 110, 111, 116, 32, 102, 111, 117, 110, 100, 46>>
\* "Expecting value"
ExpectingValue == <<69, 120, 112, 101, 99, 116, 105, 110, 103, 32, 118, 97, 108, 117, 101>>

\* str.lower() on ASCII text
LowerChar(c) == IF c \in 65..90 THEN c + 32 ELSE c
Lower(s) == [i \in 1..Len(s) |-> LowerChar(s[i])]

\* decimal rendering of a natural number
RECURSIVE Digits(_)
Digits(n) == IF n < 10 THEN <<48 + n>> ELSE Digits(n \div 10) \o <<48 + (n % 10)>>

\* dict.get(key) and dict.get(key, default)
Get(d, key) == IF key \in DOMAIN d THEN Some(d[key]) ELSE None
GetDefault(d, key, default) == IF key \in DOMAIN d THEN d[key] ELSE default

\* truth value of an Optional[str], of an Optional[int]
TruthyStr(x) == x # None /\ Len(x[1]) > 0
TruthyInt(x) == x # None /\ x[1] # 0

----------------------------------------------------------------------------
(* Exceptions and how read_movies turns them into a response *)

ValueError(msg) == [type |-> "ValueError", status |-> 0, text |-> msg]
JSONDecodeError == [type |-> "JSONDecodeError", status |-> 0, text |-> ExpectingValue]
KeyError == [type |-> "KeyError", status |-> 0, text |-> <<>>]
AttributeError == [type |-> "AttributeError", status |-> 0, text |-> <<>>]
ConnectError == [type |-> "ConnectError", status |-> 0, text |-> <<>>]

\* the URL of a request as it appears in an error message: path and key
Url(path, params) == path \o ApiKeyParam \o params.api_key

HTTPStatusError(status, path, params) ==
    [type |-> "HTTPStatusError", status |-> status,
     text |-> Digits(status) \o <<32>> \o Url(path, params)]

\* json.JSONDecodeError derives from ValueError
IsValueError(e) == e.type \in {"ValueError", "JSONDecodeError"}

NoResponse == [kind |-> "none", status |-> 0, detail |-> <<>>, movies |-> <<>>, exc |-> ""]

HTTPException(status, detail, e) ==
    [kind |-> "http_exception", status |-> status, detail |-> detail,
     movies |-> <<>>, exc |-> e.type]

\* the try/except of read_movies
ReadMoviesExceptAs404(e) ==
    IF e.type = "HTTPStatusError" \/ IsValueError(e) THEN HTTPException(NotFound, e.text, e)
    ELSE [kind |-> "unhandled", status |-> InternalServerError, detail |-> <<>>,
          movies |-> <<>>, exc |-> e.type]
ReadMoviesExcept(e) ==
    IF e.type = "HTTPStatusError" THEN HTTPException(e.status, e.text, e)
    ELSE IF IsValueError(e) THEN HTTPException(NotFound, e.text, e)
    ELSE [kind |-> "unhandled", status |-> InternalServerError, detail |-> <<>>,
          movies |-> <<>>, exc |-> e.type]

Returned(movies) ==
    [kind |-> "movies", status |-> OK, detail |-> <<>>, movies |-> movies, exc |-> ""]

ValidationError ==
    [kind |-> "validation_error", status |-> UnprocessableEntity, detail |-> <<>>,
     movies |-> <<>>, exc |-> ""]

----------------------------------------------------------------------------
(* The upstream provider's answers *)

\* an answer to client.get: a transport failure, or a status line with a body
NetworkFailure == [kind |-> "network_error", status |-> 0, json |-> "invalid", obj |-> <<>>]
HttpResponse(status, json, obj) == [kind |-> "http", status |-> status, json |-> json, obj |-> obj]

\* Response.raise_for_status(): every status outside 2xx raises
IsSuccess(status) == status \in 200..299

\* client.get, raise_for_status and resp.json(), then the .get on the decoded value
ReceiveJson(resp, path, params) ==
    IF resp.kind = "network_error" THEN [ok |-> FALSE, exc |-> ConnectError]
    ELSE IF ~IsSuccess(resp.status)
        THEN [ok |-> FALSE, exc |-> HTTPStatusError(resp.status, path, params)]
    ELSE IF resp.json = "invalid" THEN [ok |-> FALSE, exc |-> JSONDecodeError]
    ELSE IF resp.json # "object" THEN [ok |-> FALSE, exc |-> AttributeError]
    ELSE [ok |-> TRUE, data |-> resp.obj]

----------------------------------------------------------------------------
(* get_genre_id_mapping *)

GenreListParams == [api_key |-> TMDB_API_KEY, language |-> "en-US"]

\* {genre['name'].lower(): genre['id'] for genre in genres}: a later entry
\* with the same lowercased name replaces an earlier one
RECURSIVE DictOfNoLower(_)
DictOfNoLower(genres) ==
    IF Len(genres) = 0 THEN <<>>
    ELSE LET d == DictOfNoLower(SubSeq(genres, 1, Len(genres) - 1))
             g == genres[Len(genres)]
             k == g["name"]
         IN  [x \in (DOMAIN d) \cup {k} |-> IF x = k THEN g["id"] ELSE d[x]]
RECURSIVE DictOf(_)
DictOf(genres) ==
    IF Len(genres) = 0 THEN <<>>
    ELSE LET d == DictOf(SubSeq(genres, 1, Len(genres) - 1))
             g == genres[Len(genres)]
             k == Lower(g["name"])
         IN  [x \in (DOMAIN d) \cup {k} |-> IF x = k THEN g["id"] ELSE d[x]]

get_genre_id_mappingOrEmpty(resp) ==
    LET got == ReceiveJson(resp, GenreListPath, GenreListParams)
    IN  IF ~got.ok THEN [ok |-> TRUE, table |-> <<>>]
        ELSE LET genres == GetDefault(got.data, "genres", <<>>)
             IN  IF \E i \in 1..Len(genres) : ~({"name", "id"} \subseteq DOMAIN genres[i])
                     THEN [ok |-> FALSE, exc |-> KeyError]
                     ELSE [ok |-> TRUE, table |-> DictOf(genres)]
get_genre_id_mapping(resp) ==
    LET got == ReceiveJson(resp, GenreListPath, GenreListParams)
    IN  IF ~got.ok THEN got
        ELSE LET genres == GetDefault(got.data, "genres", <<>>)
             IN  IF \E i \in 1..Len(genres) : ~({"name", "id"} \subseteq DOMAIN genres[i])
                     THEN [ok |-> FALSE, exc |-> KeyError]
                     ELSE [ok |-> TRUE, table |-> DictOf(genres)]

----------------------------------------------------------------------------
(* fetch_movies_from_tmdb *)

\* `GENRE_ID_CACHE is None`
CacheMissAlways(cache) == TRUE
CacheMissFalsy(cache) == cache = None \/ cache = Some(<<>>)
CacheMiss(cache) == cache = None

query_paramsWithAdult ==
    [api_key |-> TMDB_API_KEY, language |-> "en-US", sort_by |-> "popularity.desc",
     include_adult |-> "true", include_video |-> "false", page |-> Page,
     with_genres |-> None, year |-> None]
query_params ==
    [api_key |-> TMDB_API_KEY, language |-> "en-US", sort_by |-> "popularity.desc",
     include_adult |-> "false", include_video |-> "false", page |-> Page,
     with_genres |-> None, year |-> None]

\* `not genre_id`
NeverMissing(genre_id) == FALSE
Missing(genre_id) == genre_id = None \/ genre_id = Some(0)

GenreNotFound(genre) == ValueError(GenrePrefix \o genre \o NotFoundSuffix)

\* the query of the discover request, or the ValueError of an unknown genre;
\* a parameter that the code does not set is None
BuildQuery(genre, year, table) ==
    LET g == Lower(genre[1])
        genre_id == Get(table, g)
        withGenre == IF TruthyStr(genre)
                        THEN [query_params EXCEPT !.with_genres = genre_id]
                        ELSE query_params
        withYear == IF TruthyInt(year)
                        THEN [withGenre EXCEPT !.year = year]
                        ELSE withGenre
    IN  IF TruthyStr(genre) /\ Missing(genre_id)
            THEN [ok |-> FALSE, exc |-> GenreNotFound(g)]
            ELSE [ok |-> TRUE, params |-> withYear]

\* data.get('results', [])[:5]
TruncateOneMore(results) ==
    SubSeq(results, 1, IF Len(results) < TopN + 1 THEN Len(results) ELSE TopN + 1)
Truncate(results) ==
    SubSeq(results, 1, IF Len(results) < TopN THEN Len(results) ELSE TopN)

ProjectedFields == {"title", "release_date", "vote_average", "overview"}

filtered_movie(movie) ==
    [title |-> movie["title"], release_date |-> movie["release_date"],
     vote_average |-> movie["vote_average"], overview |-> movie["overview"]]

\* the tail of fetch_movies_from_tmdb: the list returned, or the exception raised
filtered_movies(resp, params) ==
    LET got == ReceiveJson(resp, DiscoverPath, params)
    IN  IF ~got.ok THEN got
        ELSE LET movies == Truncate(GetDefault(got.data, "results", <<>>))
             IN  IF \E i \in 1..Len(movies) : ~(ProjectedFields \subseteq DOMAIN movies[i])
                     THEN [ok |-> FALSE, exc |-> KeyError]
                     ELSE [ok |-> TRUE, movies |-> [i \in 1..Len(movies) |-> filtered_movie(movies[i])]]

----------------------------------------------------------------------------
(* The steps of a request *)

GenreListRequest == [ev |-> "genre_req", params |-> GenreListParams, resp |-> <<>>]
DiscoverRequest(params) == [ev |-> "discover_req", params |-> params, resp |-> <<>>]
GenreListAnswer(resp) == [ev |-> "genre_resp", params |-> <<>>, resp |-> resp]
DiscoverAnswer(resp) == [ev |-> "discover_resp", params |-> <<>>, resp |-> resp]

\* Query(None, min_length=3, max_length=50)
ValidQuery(genre) == genre = None \/ Len(genre[1]) \in MinLength..MaxLength

\* an exception leaves fetch_movies_from_tmdb: read_movies answers, nothing is retried
RaiseAndRetry(r, e, newlog) ==
    IF e.type \in {"HTTPStatusError", "ConnectError"}
        THEN /\ log' = [log EXCEPT ![r] = Append(newlog, newlog[Len(newlog) - 1])]
             /\ UNCHANGED <<pc, response>>
        ELSE /\ pc' = [pc EXCEPT ![r] = "done"]
             /\ response' = [response EXCEPT ![r] = ReadMoviesExcept(e)]
             /\ log' = [log EXCEPT ![r] = newlog]
Raise(r, e, newlog) ==
    /\ pc' = [pc EXCEPT ![r] = "done"]
    /\ response' = [response EXCEPT ![r] = ReadMoviesExcept(e)]
    /\ log' = [log EXCEPT ![r] = newlog]

\* from the query_params literal to the await of the discover request
Discover(r, genre, year, table, newlog) ==
    LET q == BuildQuery(genre, year, table)
    IN  IF q.ok
            THEN /\ pc' = [pc EXCEPT ![r] = "await_discover"]
                 /\ log' = [log EXCEPT ![r] = Append(newlog, DiscoverRequest(q.params))]
                 /\ UNCHANGED response
            ELSE Raise(r, q.exc, newlog)

\* GET /movies/ arrives: validation, the cache test, and on a hit the query
read_movies(r, genre, year) ==
    /\ pc[r] = "idle"
    /\ args' = [args EXCEPT ![r] = [genre |-> genre, year |-> year]]
    /\ sawNone' = [sawNone EXCEPT ![r] = (GENRE_ID_CACHE = None)]
    /\ UNCHANGED <<GENRE_ID_CACHE, cacheWrites, echoed>>
    /\ IF ~ValidQuery(genre)
           THEN /\ pc' = [pc EXCEPT ![r] = "done"]
                /\ response' = [response EXCEPT ![r] = ValidationError]
                /\ UNCHANGED log
       ELSE IF CacheMiss(GENRE_ID_CACHE)
           THEN /\ pc' = [pc EXCEPT ![r] = "await_genres"]
                /\ log' = [log EXCEPT ![r] = <<GenreListRequest>>]
                /\ UNCHANGED response
       ELSE Discover(r, genre, year, GENRE_ID_CACHE[1], <<>>)

\* the genre-list request of r is answered: the assignment to the global and,
\* with no await in between, the lookup and the query
GenreListResponseFirstWins(r, resp) ==
    /\ pc[r] = "await_genres"
    /\ UNCHANGED <<args, sawNone, echoed>>
    /\ LET got == get_genre_id_mapping(resp)
           newlog == Append(log[r], GenreListAnswer(resp))
       IN  IF got.ok /\ GENRE_ID_CACHE = None
               THEN /\ GENRE_ID_CACHE' = Some(got.table)
                    /\ cacheWrites' = cacheWrites + 1
                    /\ Discover(r, args[r].genre, args[r].year, got.table, newlog)
           ELSE IF got.ok
               THEN /\ UNCHANGED <<GENRE_ID_CACHE, cacheWrites>>
                    /\ Discover(r, args[r].genre, args[r].year, GENRE_ID_CACHE[1], newlog)
               ELSE /\ UNCHANGED <<GENRE_ID_CACHE, cacheWrites>>
                    /\ Raise(r, got.exc, newlog)
GenreListResponse(r, resp) ==
    /\ pc[r] = "await_genres"
    /\ UNCHANGED <<args, sawNone, echoed>>
    /\ LET got == get_genre_id_mapping(resp)
           newlog == Append(log[r], GenreListAnswer(resp))
       IN  IF got.ok
               THEN /\ GENRE_ID_CACHE' = Some(got.table)
                    /\ cacheWrites' = cacheWrites + 1
                    /\ Discover(r, args[r].genre, args[r].year, got.table, newlog)
               ELSE /\ UNCHANGED <<GENRE_ID_CACHE, cacheWrites>>
                    /\ Raise(r, got.exc, newlog)

\* the discover request of r is answered
DiscoverResponse(r, resp) ==
    /\ pc[r] = "await_discover"
    /\ UNCHANGED <<GENRE_ID_CACHE, cacheWrites, args, sawNone, echoed>>
    /\ LET got == filtered_movies(resp, log[r][Len(log[r])].params)
           newlog == Append(log[r], DiscoverAnswer(resp))
       IN  IF got.ok
               THEN /\ pc' = [pc EXCEPT ![r] = "done"]
                    /\ response' = [response EXCEPT ![r] = Returned(got.movies)]
                    /\ log' = [log EXCEPT ![r] = newlog]
               ELSE Raise(r, got.exc, newlog)

NoArgs == [genre |-> None, year |-> None]

\* the response has gone out; the slot serves the next request
Deliver(r) ==
    /\ pc[r] = "done"
    /\ pc' = [pc EXCEPT ![r] = "idle"]
    /\ args' = [args EXCEPT ![r] = NoArgs]
    /\ sawNone' = [sawNone EXCEPT ![r] = FALSE]
    /\ log' = [log EXCEPT ![r] = <<>>]
    /\ response' = [response EXCEPT ![r] = NoResponse]
    /\ UNCHANGED <<GENRE_ID_CACHE, cacheWrites, echoed>>

\* `return movie`
EchoSummary(movie) ==
    [title |-> movie.title, overview |-> movie.overview, vote_average |-> movie.vote_average]
Echo(movie) == movie

\* POST /movies/: the body posted and the value returned for it
create_movie(movie) ==
    /\ echoed' = Some([posted |-> movie, returned |-> Echo(movie)])
    /\ UNCHANGED <<GENRE_ID_CACHE, cacheWrites, pc, args, sawNone, log, response>>

----------------------------------------------------------------------------
(* Inputs *)

\* "War", "wAR", "Spy", "Wa"
War == <<87, 97, 114>>
wAR == <<119, 65, 82>>
Spy == <<83, 112, 121>>
Wa == <<87, 97>>

Genre(name, id) == [name |-> name, id |-> id]
UpstreamMovie(k) ==
    [id |-> k, title |-> <<77, 48 + k>>, release_date |-> <<2020, 1, k>>,
     vote_average |-> k, overview |-> <<79, 48 + k>>, popularity |-> 100 - k]
Without(movie, field) == [x \in (DOMAIN movie) \ {field} |-> movie[x]]

Statuses == {301, 404, 500}
Failures ==
    {NetworkFailure} \cup {HttpResponse(s, "invalid", <<>>) : s \in Statuses}
    \cup {HttpResponse(OK, "invalid", <<>>), HttpResponse(OK, "not_object", <<>>)}

\* all sequences over S of length at most n
RECURSIVE SeqsUpTo(_, _)
SeqsUpTo(S, n) ==
    IF n = 0 THEN {<<>>}
    ELSE LET shorter == SeqsUpTo(S, n - 1)
         IN  shorter \cup {Append(q, x) : q \in shorter, x \in S}

GenreEntries ==
    {Genre(n, i) : n \in {War, Spy}, i \in {0, 18}} \cup {[name |-> War]}
GenreListResponses ==
    Failures \cup {HttpResponse(OK, "object", [page |-> Page])}
    \cup {HttpResponse(OK, "object", [genres |-> l]) : l \in SeqsUpTo(GenreEntries, MaxGenres)}

ResultLists ==
    {[i \in 1..n |-> IF i = bad THEN Without(UpstreamMovie(i), f) ELSE UpstreamMovie(i)] :
        n \in 0..MaxResults, bad \in 0..MaxResults, f \in ProjectedFields}
DiscoverResponses ==
    Failures \cup {HttpResponse(OK, "object", [page |-> Page])}
    \cup {HttpResponse(OK, "object", [page |-> Page, results |-> l]) : l \in ResultLists}

GenreArgs == {None, Some(War), Some(wAR), Some(Spy), Some(Wa)}
YearArgs == {None, Some(-1), Some(0), Some(2020)}
Movies ==
    {[title |-> "Alien", year |-> 1979, genre |-> "Horror", overview |-> "", vote_average |-> 8],
     [title |-> "Heat", year |-> 1995, genre |-> "Crime", overview |-> "LA", vote_average |-> 0]}

\* the inputs of the concurrent specification
FewGenreArgs == {None, Some(wAR), Some(Wa)}
FewYearArgs == {Some(2020)}
FewGenreListResponses ==
    {HttpResponse(500, "invalid", <<>>),
     HttpResponse(OK, "object", [genres |-> <<>>]),
     HttpResponse(OK, "object", [genres |-> <<Genre(War, 10752)>>])}
FewDiscoverResponses ==
    {HttpResponse(500, "invalid", <<>>),
     HttpResponse(OK, "object", [page |-> Page, results |-> <<UpstreamMovie(1)>>])}
FewMovies ==
    {[title |-> "Alien", year |-> 1979, genre |-> "Horror", overview |-> "", vote_average |-> 8],
     [title |-> "Heat", year |-> 1995, genre |-> "Crime", overview |-> "LA", vote_average |-> 0]}

----------------------------------------------------------------------------
(* Specifications *)

InitFor(Rs) ==
    /\ GENRE_ID_CACHE = None
    /\ cacheWrites = 0
    /\ pc = [r \in Rs |-> "idle"]
    /\ args = [r \in Rs |-> NoArgs]
    /\ sawNone = [r \in Rs |-> FALSE]
    /\ log = [r \in Rs |-> <<>>]
    /\ response = [r \in Rs |-> NoResponse]
    /\ echoed = None

\* several requests in flight, few inputs
Init == InitFor(1..NumReq)

Next ==
    \/ \E r \in DOMAIN pc, genre \in FewGenreArgs, year \in FewYearArgs : read_movies(r, genre, year)
    \/ \E r \in DOMAIN pc, resp \in FewGenreListResponses : GenreListResponse(r, resp)
    \/ \E r \in DOMAIN pc, resp \in FewDiscoverResponses : DiscoverResponse(r, resp)
    \/ \E r \in DOMAIN pc : Deliver(r)
    \/ \E movie \in FewMovies : create_movie(movie)

Spec == Init /\ [][Next]_vars

\* one request at a time, many inputs
InitSeq == InitFor({1})

NextSeq ==
    \/ \E r \in DOMAIN pc, genre \in GenreArgs, year \in YearArgs : read_movies(r, genre, year)
    \/ \E r \in DOMAIN pc, resp \in GenreListResponses : GenreListResponse(r, resp)
    \/ \E r \in DOMAIN pc, resp \in DiscoverResponses : DiscoverResponse(r, resp)
    \/ \E r \in DOMAIN pc : Deliver(r)
    \/ \E movie \in Movies : create_movie(movie)

SpecSeq == InitSeq /\ [][NextSeq]_vars

\* several requests in flight, a provider whose genre list never changes
SameGenreArgs == {None, Some(wAR), Some(Spy)}
SameGenreListResponses ==
    {HttpResponse(500, "invalid", <<>>),
     HttpResponse(OK, "object", [genres |-> <<Genre(War, 10752)>>])}

NextSame ==
    \/ \E r \in DOMAIN pc, genre \in SameGenreArgs, year \in FewYearArgs : read_movies(r, genre, year)
    \/ \E r \in DOMAIN pc, resp \in SameGenreListResponses : GenreListResponse(r, resp)
    \/ \E r \in DOMAIN pc, resp \in FewDiscoverResponses : DiscoverResponse(r, resp)
    \/ \E r \in DOMAIN pc : Deliver(r)
    \/ \E movie \in FewMovies : create_movie(movie)

SpecSame == Init /\ [][NextSame]_vars

----------------------------------------------------------------------------
(* Properties *)

Slots == DOMAIN pc
Events(r, ev) == {i \in 1..Len(log[r]) : log[r][i].ev = ev}
LastEvent(l) == l[Len(l)]

\* an upstream answer that carries a decoded JSON object
Answered(resp) == resp.kind = "http" /\ resp.status \in 200..299 /\ resp.json = "object"
\* the genre list of an answer, and whether every entry has a name and an id
GenresOf(resp) == IF "genres" \in DOMAIN resp.obj THEN resp.obj["genres"] ELSE <<>>
WellFormed(genres) == \A i \in 1..Len(genres) : {"name", "id"} \subseteq DOMAIN genres[i]
\* the step is the completion of r's genre-list fetch with a usable table
Populates(r) ==
    /\ pc[r] = "await_genres"
    /\ Len(log'[r]) > Len(log[r])
    /\ log'[r][Len(log[r]) + 1].ev = "genre_resp"
    /\ Answered(log'[r][Len(log[r]) + 1].resp)
    /\ WellFormed(GenresOf(log'[r][Len(log[r]) + 1].resp))

\* C1 as stated: the shared slot GENRE_ID_CACHE is assigned exactly once in
\* the process lifetime; after the first assignment no later completion of a
\* genre-list fetch writes it again.
C1_AssignedOnce == cacheWrites <= 1

\* C1 amended: the slot is assigned only when a genre-list fetch completes
\* successfully, by the request that issued the fetch, which found the slot
\* uninitialised on arrival; a request assigns it at most once, but every
\* racing first caller assigns it; once assigned it is never None again.
C1_AssignedByFirstCallers ==
    /\ [](\A r \in Slots : Cardinality(Events(r, "genre_resp")) <= 1)
    /\ [][/\ GENRE_ID_CACHE # None => GENRE_ID_CACHE' # None
          /\ cacheWrites' # cacheWrites \/ GENRE_ID_CACHE' # GENRE_ID_CACHE =>
                /\ cacheWrites' = cacheWrites + 1
                /\ \E r \in Slots : sawNone[r] /\ Populates(r)]_vars

\* two racing first callers have both written the slot
C1_Witness == cacheWrites >= 2

\* C2: once GENRE_ID_CACHE is populated, a request that starts afterwards
\* issues no genre-list request and leaves the slot unchanged, however it
\* ends; the slot never returns to None.
C2_ReuseAfterPopulate ==
    /\ [](\A r \in Slots : pc[r] # "idle" /\ ~sawNone[r] => Events(r, "genre_req") = {})
    /\ [][/\ GENRE_ID_CACHE # None => GENRE_ID_CACHE' # None
          /\ \A r \in Slots :
                /\ \/ pc[r] = "idle" /\ pc'[r] # "idle" /\ GENRE_ID_CACHE # None
                   \/ pc[r] # "idle" /\ ~sawNone[r]
                /\ <<pc'[r], log'[r], response'[r]>> # <<pc[r], log[r], response[r]>>
                => /\ GENRE_ID_CACHE' = GENRE_ID_CACHE
                   /\ cacheWrites' = cacheWrites
                   /\ Events(r, "genre_req") = {}]_vars

\* a genre-filtered request that arrived after the population has returned movies
C2_Witness ==
    \E r \in Slots :
        /\ pc[r] = "done" /\ ~sawNone[r] /\ args[r].genre # None
        /\ response[r].kind = "movies" /\ GENRE_ID_CACHE # None

\* C3 as stated: a request that carries no genre issues no genre-list
\* request and leaves GENRE_ID_CACHE alone, so that it cannot end in a
\* failure of the genre-list endpoint.
C3_NoGenreNoFetch ==
    \A r \in Slots :
        pc[r] # "idle" /\ args[r].genre = None => Events(r, "genre_req") = {}

\* the genre list that r's own fetch delivered
FetchedGenres(r) == GenresOf(log[r][2].resp)
HasFetched(r) ==
    /\ Len(log[r]) >= 2 /\ log[r][2].ev = "genre_resp"
    /\ Answered(log[r][2].resp) /\ WellFormed(FetchedGenres(r))
\* no two entries of the list share a lowercased name
Unambiguous(genres) ==
    \A i, j \in 1..Len(genres) :
        Lower(genres[i]["name"]) = Lower(genres[j]["name"]) => i = j
\* read_movies ended r with the not-found answer for genre g
EndsNotFound(r, g) ==
    /\ pc[r] = "done"
    /\ response[r].kind = "http_exception"
    /\ response[r].status = 404
    /\ response[r].detail = GenrePrefix \o Lower(g) \o NotFoundSuffix

\* C4 as stated: when the provider's list holds the name N with the ID n, a
\* request whose genre equals N up to case sends the discover request with
\* with_genres = n and does not end in not-found.  (Stated for lists whose
\* names are distinct up to case, where "the ID of N" is unambiguous.)
C4_ResolvesEveryId ==
    \A r \in Slots :
        pc[r] # "idle" /\ args[r].genre # None /\ HasFetched(r)
        /\ Unambiguous(FetchedGenres(r)) =>
            \A i \in 1..Len(FetchedGenres(r)) :
                Lower(FetchedGenres(r)[i]["name"]) = Lower(args[r].genre[1]) =>
                    /\ ~EndsNotFound(r, args[r].genre[1])
                    /\ \E k \in Events(r, "discover_req") :
                          log[r][k].params.with_genres = Some(FetchedGenres(r)[i]["id"])

\* the keys of the table r resolved its genre in, when one request runs at a time
KnownKeys(r) ==
    IF sawNone[r] THEN {Lower(FetchedGenres(r)[i]["name"]) : i \in 1..Len(FetchedGenres(r))}
    ELSE DOMAIN GENRE_ID_CACHE[1]

\* C5: with the table populated (cached on arrival, or fetched by this
\* request) and the lowercased genre not among its keys, the request ends with
\* status 404 and the detail "Genre '<lowercased name>' not found.", and no
\* discover request is issued for it.
C5_UnknownGenreIs404 ==
    \A r \in Slots :
        /\ pc[r] # "idle" /\ args[r].genre # None
        /\ response[r].kind # "validation_error"
        /\ ~sawNone[r] \/ HasFetched(r)
        /\ Lower(args[r].genre[1]) \notin KnownKeys(r)
        => /\ EndsNotFound(r, args[r].genre[1])
           /\ Events(r, "discover_req") = {}

\* "Spy" was asked of a non-empty table without it and answered with 'spy'
C5_Witness ==
    \E r \in Slots :
        /\ args[r].genre = Some(Spy) /\ GENRE_ID_CACHE # None
        /\ DOMAIN GENRE_ID_CACHE[1] # {}
        /\ EndsNotFound(r, Spy)
        /\ response[r].detail
             = <<71, 101, 110, 114, 101, 32, 39, 115, 112, 121, 39, 32, 110, 111, 116, 32, 102, 111, 117, 110, 100, 46>>

\* the result list of the discover answer that ended r
ResultsOf(r) ==
    IF "results" \in DOMAIN LastEvent(log[r]).resp.obj
        THEN LastEvent(log[r]).resp.obj["results"] ELSE <<>>

\* C6: a request that returns movies for the upstream result list R returns
\* min(5, |R|) records, the i-th being exactly the title, release_date,
\* vote_average and overview of R[i].
C6_FirstFiveProjected ==
    \A r \in Slots :
        pc[r] = "done" /\ response[r].kind = "movies" =>
            /\ LastEvent(log[r]).ev = "discover_resp"
            /\ Len(response[r].movies)
                 = (IF Len(ResultsOf(r)) < 5 THEN Len(ResultsOf(r)) ELSE 5)
            /\ \A i \in 1..Len(response[r].movies) :
                  response[r].movies[i]
                    = [title |-> ResultsOf(r)[i]["title"],
                       release_date |-> ResultsOf(r)[i]["release_date"],
                       vote_average |-> ResultsOf(r)[i]["vote_average"],
                       overview |-> ResultsOf(r)[i]["overview"]]

\* more than five results came back and five were returned
C6_Witness ==
    \E r \in Slots :
        /\ pc[r] = "done" /\ response[r].kind = "movies"
        /\ Len(ResultsOf(r)) > 5 /\ Len(response[r].movies) = 5
        /\ response[r].movies[5].title = <<77, 53>>

\* an upstream answer with a status outside 2xx
NonSuccess(e) ==
    /\ e.ev \in {"genre_resp", "discover_resp"}
    /\ e.resp.kind = "http"
    /\ e.resp.status \notin 200..299

\* C7: when an upstream call of a request, genre-list or discover, is answered
\* with a non-2xx status S, the request ends there with an error of status S:
\* not with the genre-not-found answer, not with movies, not with another status.
C7_UpstreamStatusMirrored ==
    \A r \in Slots : \A i \in 1..Len(log[r]) :
        NonSuccess(log[r][i]) =>
            /\ i = Len(log[r])
            /\ pc[r] = "done"
            /\ response[r].kind = "http_exception"
            /\ response[r].status = log[r][i].resp.status
            /\ response[r].exc = "HTTPStatusError"
            /\ SubSeq(response[r].detail, 1, Len(GenrePrefix)) # GenrePrefix

\* an upstream 404 on the discover call of a genre-filtered request
C7_Witness ==
    \E r \in Slots :
        /\ pc[r] = "done" /\ args[r].genre # None
        /\ Len(log[r]) > 0
        /\ LastEvent(log[r]).ev = "discover_resp"
        /\ NonSuccess(LastEvent(log[r]))
        /\ LastEvent(log[r]).resp.status = 404
        /\ response[r].status = 404

\* the upstream answer that ended r is a failure other than a non-2xx status:
\* no answer at all, a body that is not JSON or not an object, a retained
\* record without one of the four fields
OtherFailure(r) ==
    /\ pc[r] = "done" /\ Len(log[r]) > 0
    /\ LastEvent(log[r]).ev \in {"genre_resp", "discover_resp"}
    /\ \/ LastEvent(log[r]).resp.kind = "network_error"
       \/ /\ LastEvent(log[r]).resp.kind = "http"
          /\ LastEvent(log[r]).resp.status \in 200..299
          /\ \/ LastEvent(log[r]).resp.json # "object"
             \/ /\ LastEvent(log[r]).ev = "discover_resp"
                /\ \E i \in 1..Len(ResultsOf(r)) :
                      i <= 5 /\ ~(ProjectedFields \subseteq DOMAIN ResultsOf(r)[i])

\* C8 as stated: every such failure leaves read_movies unhandled, as an
\* unclassified server error: never a 404, never an upstream status, never movies.
C8_OtherFailuresUnhandled ==
    \A r \in Slots :
        OtherFailure(r) => response[r].kind = "unhandled" /\ response[r].status = 500

\* C9 as stated: the discover request carries year = y for every integer y
\* the request supplied, and no year filter only when none was supplied.
C9_YearVerbatim ==
    \A r \in Slots : \A k \in Events(r, "discover_req") :
        /\ args[r].year # None => log[r][k].params.year = args[r].year
        /\ log[r][k].params.year = None => args[r].year = None

\* an upstream answer after which the request cannot go on
Failed(e) ==
    /\ e.ev \in {"genre_resp", "discover_resp"}
    /\ ~(Answered(e.resp) /\ (e.ev = "genre_resp" => WellFormed(GenresOf(e.resp))))

\* C10: a request issues at most one genre-list request and at most one
\* discover request and issues nothing after a failed answer; a request that
\* returns movies has issued exactly one discover request, after its
\* genre-list exchange (if it had one) was over.
C10_OneCallEach ==
    \A r \in Slots :
        /\ Cardinality(Events(r, "genre_req")) <= 1
        /\ Cardinality(Events(r, "discover_req")) <= 1
        /\ \A i \in 1..Len(log[r]) :
              Failed(log[r][i]) \/ log[r][i].ev = "discover_resp" => i = Len(log[r])
        /\ pc[r] = "done" /\ response[r].kind = "movies" =>
              /\ Cardinality(Events(r, "discover_req")) = 1
              /\ \A k \in Events(r, "discover_req") :
                    \A i \in Events(r, "genre_req") \cup Events(r, "genre_resp") : i < k
              /\ sawNone[r] => Events(r, "genre_resp") # {}

\* a request fetched the genre list, then discovered, and returned movies
C10_Witness ==
    \E r \in Slots :
        /\ pc[r] = "done" /\ response[r].kind = "movies" /\ sawNone[r]
        /\ Len(log[r]) = 4
        /\ \E q \in Slots : q # r /\ pc[q] = "done" /\ response[q].status = 500

\* the table a genre list stands for: each lowercased name with the ID of
\* the last entry that bears it
TableOf(genres) ==
    [k \in {Lower(genres[i]["name"]) : i \in 1..Len(genres)} |->
        genres[CHOOSE i \in 1..Len(genres) :
                  /\ Lower(genres[i]["name"]) = k
                  /\ \A j \in (i + 1)..Len(genres) : Lower(genres[j]["name"]) # k]["id"]]

\* the table r resolved its genre in, when one request runs at a time
TableUsed(r) == IF sawNone[r] THEN TableOf(FetchedGenres(r)) ELSE GENRE_ID_CACHE[1]

\* C11: every discover request carries sort_by = popularity.desc,
\* include_adult = false, include_video = false and page = 1, and carries
\* with_genres exactly when the request supplied a genre, with the ID the
\* genre resolved to.
C11_FixedSettingsAndGenre ==
    \A r \in Slots : \A k \in Events(r, "discover_req") :
        /\ log[r][k].params.sort_by = "popularity.desc"
        /\ log[r][k].params.include_adult = "false"
        /\ log[r][k].params.include_video = "false"
        /\ log[r][k].params.page = 1
        /\ log[r][k].params.with_genres # None <=> args[r].genre # None
        /\ args[r].genre # None =>
              /\ Lower(args[r].genre[1]) \in DOMAIN TableUsed(r)
              /\ log[r][k].params.with_genres
                   = Some(TableUsed(r)[Lower(args[r].genre[1])])

\* genre "wAR" with year 2020, "War" being 18: with_genres = 18, year = 2020
C11_Witness ==
    \E r \in Slots : \E k \in Events(r, "discover_req") :
        /\ args[r] = [genre |-> Some(wAR), year |-> Some(2020)]
        /\ log[r][k].params.with_genres = Some(18)
        /\ log[r][k].params.year = Some(2020)
        /\ log[r][k].params.page = 1

\* the one table of the provider of SpecSame: "war" is 10752
SameTable == (<<119, 97, 114>> :> 10752)

\* r has looked its genre up
Resolved(r) ==
    /\ args[r].genre # None
    /\ pc[r] \in {"await_discover", "done"}
    /\ ~sawNone[r] \/ HasFetched(r)

\* C12: when every genre-list fetch that succeeds returns the same table T,
\* the slot holds T from the first population on, whatever the number of
\* racing fetches, every request resolves its genre against T, and a fetch
\* is issued only by a request that arrived before the first population, once.
C12_SameTableConverges ==
    /\ [](/\ GENRE_ID_CACHE \in {None, Some(SameTable)}
          /\ cacheWrites > 0 => GENRE_ID_CACHE = Some(SameTable)
          /\ cacheWrites <= NumReq
          /\ \A r \in Slots :
                /\ Cardinality(Events(r, "genre_req")) <= 1
                /\ Events(r, "genre_req") # {} => sawNone[r]
                /\ Resolved(r) =>
                      IF Lower(args[r].genre[1]) = <<119, 97, 114>>
                          THEN \E k \in Events(r, "discover_req") :
                                  log[r][k].params.with_genres = Some(10752)
                          ELSE EndsNotFound(r, args[r].genre[1])
                                  /\ Events(r, "discover_req") = {})
    /\ [][GENRE_ID_CACHE = Some(SameTable) => GENRE_ID_CACHE' = Some(SameTable)]_vars

\* two racing fetches have both written the slot, no fetch is in flight, and
\* a racer and a later request have both resolved "wAR"
C12_Witness ==
    /\ cacheWrites >= 2 /\ GENRE_ID_CACHE = Some(SameTable)
    /\ \A r \in Slots : pc[r] # "await_genres"
    /\ \E r, q \in Slots :
          /\ sawNone[r] /\ Resolved(r) /\ Events(r, "discover_req") # {}
          /\ ~sawNone[q] /\ Resolved(q) /\ Events(q, "discover_req") # {}

\* C13: create_movie returns a value equal to the Movie it was given, field
\* for field, and a create_movie call issues no upstream request and leaves
\* GENRE_ID_CACHE and every read-filter request as they were.
C13_EchoIsIdentity ==
    /\ [](echoed # None =>
            /\ DOMAIN echoed[1].returned
                 = {"title", "year", "genre", "overview", "vote_average"}
            /\ \A f \in {"title", "year", "genre", "overview", "vote_average"} :
                  echoed[1].returned[f] = echoed[1].posted[f])
    /\ [][echoed' # echoed =>
            UNCHANGED <<GENRE_ID_CACHE, cacheWrites, pc, args, sawNone, log, response>>]_vars

\* a movie with vote_average 0 was echoed while a read-filter request was in flight
C13_Witness ==
    /\ echoed # None
    /\ echoed[1].posted.title = "Heat" /\ echoed[1].returned.vote_average = 0
    /\ echoed[1].returned.year = 1995
    /\ GENRE_ID_CACHE # None
    /\ \E r \in Slots : pc[r] = "await_discover"

\* C14 as stated: a genre-filtered request that finds the genre table
\* uninitialised or empty fetches the genre list before it looks the name up;
\* in particular it fetches again when an earlier fetch delivered no genres.
C14_EmptyTableRefetched ==
    \A r \in Slots :
        /\ pc[r] # "idle" /\ args[r].genre # None
        /\ response[r].kind # "validation_error"
        /\ sawNone[r] \/ GENRE_ID_CACHE = Some(<<>>)
        => Events(r, "genre_req") # {}

\* the step is the failure of r's genre-list fetch
FetchFails(r) ==
    /\ pc[r] = "await_genres"
    /\ Len(log'[r]) = Len(log[r]) + 1
    /\ Failed(log'[r][Len(log'[r])])

\* C15: a genre-list fetch that fails (non-2xx status, no answer, malformed
\* body) ends its request in an error and stores nothing: GENRE_ID_CACHE is
\* still None afterwards, and a request that arrives while it is None starts
\* with a genre-list request of its own.
C15_FailedFetchStoresNothing ==
    /\ [](\A r \in Slots :
            pc[r] # "idle" /\ sawNone[r] /\ response[r].kind # "validation_error" =>
                Len(log[r]) > 0 /\ log[r][1].ev = "genre_req")
    /\ [][\A r \in Slots :
            FetchFails(r) =>
                /\ GENRE_ID_CACHE' = None
                /\ cacheWrites' = cacheWrites
                /\ pc'[r] = "done"
                /\ response'[r].kind \in {"http_exception", "unhandled"}
                /\ response'[r].status \notin 200..299]_vars

\* a request has ended on a genre-list body that is not JSON; nothing was stored
C15_Witness ==
    \E r \in Slots :
        /\ pc[r] = "done" /\ Len(log[r]) = 2
        /\ log[r][2].ev = "genre_resp"
        /\ log[r][2].resp.kind = "http" /\ log[r][2].resp.status = 200
        /\ log[r][2].resp.json = "invalid"
        /\ GENRE_ID_CACHE = None /\ cacheWrites = 0

\* the log lg, the response rs and the position p of a request are those of
\* a lookup of genre g in the table: the discover request with the ID found,
\* or the not-found answer without a discover request
OutcomeIn(g, table, lg, rs, p) ==
    IF Lower(g) \in DOMAIN table /\ table[Lower(g)] # 0
        THEN \E k \in 1..Len(lg) :
                /\ lg[k].ev = "discover_req"
                /\ lg[k].params.with_genres = Some(table[Lower(g)])
        ELSE /\ p = "done"
             /\ rs.kind = "http_exception" /\ rs.status = 404
             /\ rs.detail = GenrePrefix \o Lower(g) \o NotFoundSuffix
             /\ \A k \in 1..Len(lg) : lg[k].ev # "discover_req"

\* C16: when racing genre-list fetches return different tables, a request
\* that found the slot uninitialised resolves its genre in the table of its
\* own fetch, a request that found it populated resolves it in the table the
\* slot holds at that moment, and each completing fetch leaves its own table
\* in the slot, so that the slot ends with the table of the last completion.
C16_OneTablePerRequest ==
    /\ [](\A r \in Slots :
            sawNone[r] /\ args[r].genre # None /\ HasFetched(r) =>
                OutcomeIn(args[r].genre[1], TableOf(FetchedGenres(r)),
                          log[r], response[r], pc[r]))
    /\ [][\A r \in Slots :
            /\ Populates(r) =>
                  GENRE_ID_CACHE' = Some(TableOf(GenresOf(log'[r][Len(log[r]) + 1].resp)))
            /\ /\ pc[r] = "idle" /\ pc'[r] # "idle" /\ GENRE_ID_CACHE # None
               /\ args'[r].genre # None /\ response'[r].kind # "validation_error"
               => OutcomeIn(args'[r].genre[1], GENRE_ID_CACHE[1],
                            log'[r], response'[r], pc'[r])]_vars

\* two racers asked for "wAR" and fetched different lists: one resolved it to
\* 10752 in its own table, the other, last to complete, left the empty table
\* in the slot and answered not-found
C16_Witness ==
    \E r, q \in Slots :
        /\ sawNone[r] /\ HasFetched(r) /\ args[r].genre = Some(wAR)
        /\ sawNone[q] /\ HasFetched(q) /\ args[q].genre = Some(wAR)
        /\ Len(FetchedGenres(r)) = 1 /\ Len(FetchedGenres(q)) = 0
        /\ \E k \in Events(r, "discover_req") : log[r][k].params.with_genres = Some(10752)
        /\ EndsNotFound(q, wAR)
        /\ GENRE_ID_CACHE = Some(<<>>)

\* the text t occurs in the text s
Contains(s, t) ==
    \E i \in 1..(Len(s) - Len(t) + 1) : SubSeq(s, i, i + Len(t) - 1) = t

\* C17 as stated: no response depends on the value of TMDB_API_KEY; the key,
\* sent as a query parameter of the upstream URL, does not appear in the
\* detail of an error response.
C17_DetailHidesKey ==
    \A r \in Slots :
        response[r].kind = "http_exception" => ~Contains(response[r].detail, TMDB_API_KEY)

====
